---- MODULE Spec2Model ----
(***************************************************************************)
(* Store backend (FastAPI + MongoDB), backend/server.py.                   *)
(*                                                                         *)
(* The four collections are sets of documents.  Every request is handled   *)
(* by a coroutine that runs from one `await` on the document store to the  *)
(* next without interruption; one action of this module is one store call  *)
(* together with the handler code that follows it up to the next await.    *)
(* Requests of different clients interleave at the awaits.                 *)
(***************************************************************************)
EXTENDS Integers, Sequences, FiniteSets, TLC

(* ------------------------------ bounds -------------------------------- *)
\* clients (connections) that may have a request in flight
NumSlots == 2
\* requests issued per behaviour, per specification
MaxAuthRequests == 3
MaxCartRequests == 3
MaxSeqRequests == 3
MaxCatalogRequests == 3
MaxGuardRequests == 2
\* bcrypt salts
NumSalts == 2
\* the clock advances TickMinutes at a time, up to MaxTime
TickMinutes == 30
MaxTime == 30
\* quantities a client submits: 1 .. MaxQty
MaxQty == 2
\* sample products present at startup (the first ones of the eight seeded)
NumSampleProducts == 2
\* a user id no registration has produced
UnknownUserId == 9

(* ------------------------- program constants -------------------------- *)
SECRET_KEY == "your-secret-key-change-in-production"
ACCESS_TOKEN_EXPIRE_MINUTES == 30

Slots == 1..NumSlots
Emails == {"a@shop.io", "b@shop.io"}
Passwords == {"pw1", "pw2"}
Quantities == 1..MaxQty
None == "None"

VARIABLES
    users,        \* db.users
    products,     \* db.products
    cart_items,   \* db.cart_items
    orders,       \* db.orders
    uuid,         \* uuid4 draws so far, per document class
    now,          \* datetime.utcnow(), in minutes
    req,          \* per client: the request in flight or the last response
    session,      \* per client: what it registered with and the token it holds
    nreq          \* requests issued so far

vars == <<users, products, cart_items, orders, uuid, now, req, session, nreq>>
store == <<users, products, cart_items, orders>>

(* --------------------------- password hasher -------------------------- *)
\* bcrypt: the digest depends on the plaintext and on a random salt
bcrypt_digest(password, salt) == <<"bcrypt", salt, password>>

get_password_hash(password, salt) ==
    [salt |-> salt, digest |-> bcrypt_digest(password, salt)]

verify_password(plain_password, hashed_password) ==
    bcrypt_digest(plain_password, hashed_password.salt) = hashed_password.digest

(* ------------------------------- tokens ------------------------------- *)
\* kind: "jwt" a three-part signed token, "malformed" any other string,
\* "none" no Authorization header.  sub = 0: the payload has no "sub".
NoToken == [kind |-> "none", sub |-> 0, exp |-> 0, key |-> ""]

jwt_encode(sub, exp, key) == [kind |-> "jwt", sub |-> sub, exp |-> exp, key |-> key]

create_access_token(sub, expires_delta) ==
    jwt_encode(sub, now + expires_delta, SECRET_KEY)

\* jwt.decode: TRUE iff no PyJWTError (well-formed, signature of key, not expired)
jwt_decode_ok(token, key) ==
    /\ token.kind = "jwt"
    /\ token.key = key
    /\ token.exp > now

\* the user documents get_current_user may return for the credentials
get_current_user_docs(credentials) ==
    IF jwt_decode_ok(credentials, SECRET_KEY) /\ credentials.sub # 0
    THEN {u \in users : u.id = credentials.sub}
    ELSE {}

(* ------------------------------ requests ------------------------------ *)
NoResp == [status |-> 0, detail |-> "", access_token |-> NoToken, body |-> <<>>]

IdleReq ==
    [op |-> "none", pc |-> "idle", seq |-> 0, cred |-> NoToken, user |-> 0,
     email |-> "", password |-> "",
     product_id |-> 0, item_id |-> 0, quantity |-> 0,
     update_data |-> <<>>, order |-> <<>>,
     existing |-> {}, todo |-> <<>>, result |-> <<>>,
     resp |-> NoResp]

NoSession == [email |-> "", password |-> "", reg_token |-> NoToken, token |-> NoToken]

InFlight(s) == req[s].pc \notin {"idle", "done"}

\* the response leaves the handler
Respond(r, status, detail, token, body) ==
    [r EXCEPT !.pc = "done",
              !.resp = [status |-> status, detail |-> detail,
                        access_token |-> token, body |-> body]]

HTTPException(s, status, detail) ==
    req' = [req EXCEPT ![s] = Respond(req[s], status, detail, NoToken, <<>>)]

\* an exception no handler catches: the framework answers 500
Unhandled(s) == HTTPException(s, 500, "Internal Server Error")

Return(s, r, detail, body) ==
    req' = [req EXCEPT ![s] = Respond(r, 200, detail, NoToken, body)]

ReturnToken(s, r, token) ==
    req' = [req EXCEPT ![s] = Respond(r, 200, "", token, <<>>)]

\* a client issues a request; `exclusive`: only when no request is in flight
Issue(s, r, cap, exclusive) ==
    /\ ~InFlight(s)
    /\ nreq < cap
    /\ exclusive => \A t \in Slots : ~InFlight(t)
    /\ req' = [req EXCEPT ![s] = [r EXCEPT !.seq = nreq + 1]]
    /\ nreq' = nreq + 1
    /\ UNCHANGED <<store, uuid, now, session>>

(* --------------------------- authentication --------------------------- *)
StartRegister(s, cap, exclusive) ==
    \E e \in Emails, p \in Passwords :
        Issue(s, [IdleReq EXCEPT !.op = "register", !.pc = "register_find_one",
                                 !.email = e, !.password = p], cap, exclusive)

\* register_find_one with the filter on another field than email
register_find_one_wrong_key(s) ==
    /\ req[s].pc = "register_find_one"
    /\ LET existing_user == {u \in users : u.full_name = req[s].email}
       IN  IF existing_user # {}
           THEN HTTPException(s, 400, "Email already registered")
           ELSE req' = [req EXCEPT ![s].pc = "register_insert_one"]
    /\ UNCHANGED <<store, uuid, now, session, nreq>>

\* line 151-153: find_one({"email"}), 400 when a document matches
register_find_one(s) ==
    /\ req[s].pc = "register_find_one"
    /\ LET existing_user == {u \in users : u.email = req[s].email}
       IN  IF existing_user # {}
           THEN HTTPException(s, 400, "Email already registered")
           ELSE req' = [req EXCEPT ![s].pc = "register_insert_one"]
    /\ UNCHANGED <<store, uuid, now, session, nreq>>

\* line 156-168: hash, insert_one, token for the new id
register_insert_one(s) ==
    /\ req[s].pc = "register_insert_one"
    /\ \E salt \in 1..NumSalts :
         LET user_obj == [id |-> uuid.users + 1,
                          email |-> req[s].email,
                          full_name |-> "name",
                          hashed_password |-> get_password_hash(req[s].password, salt),
                          is_active |-> TRUE]
             access_token == create_access_token(user_obj.id, ACCESS_TOKEN_EXPIRE_MINUTES)
         IN  /\ users' = users \cup {user_obj}
             /\ uuid' = [uuid EXCEPT !.users = @ + 1]
             /\ ReturnToken(s, [req[s] EXCEPT !.user = user_obj.id], access_token)
             /\ session' = [session EXCEPT ![s] =
                               [email |-> req[s].email, password |-> req[s].password,
                                reg_token |-> access_token, token |-> access_token]]
    /\ UNCHANGED <<products, cart_items, orders, now, nreq>>

StartLogin(s, cap, exclusive) ==
    \E e \in Emails, p \in Passwords :
        Issue(s, [IdleReq EXCEPT !.op = "login", !.pc = "login_find_one",
                                 !.email = e, !.password = p], cap, exclusive)

\* line 172-183: find_one returns some matching document, or none
login_find_one(s) ==
    /\ req[s].pc = "login_find_one"
    /\ LET matching == {u \in users : u.email = req[s].email}
       IN  \/ /\ matching = {}
              /\ HTTPException(s, 401, "Incorrect email or password")
              /\ UNCHANGED session
           \/ \E user \in matching :
                IF ~verify_password(req[s].password, user.hashed_password)
                THEN /\ HTTPException(s, 401, "Incorrect email or password")
                     /\ UNCHANGED session
                ELSE LET access_token ==
                             create_access_token(user.id, ACCESS_TOKEN_EXPIRE_MINUTES)
                     IN  /\ ReturnToken(s, [req[s] EXCEPT !.user = user.id], access_token)
                         /\ session' = [session EXCEPT ![s].token = access_token]
    /\ UNCHANGED <<store, uuid, now, nreq>>

\* the first store call of a protected route, reached once the dependency
\* get_current_user has resolved
FirstAwait(op) ==
    CASE op = "get_cart" -> "get_cart_find"
      [] op = "add_to_cart" -> "add_to_cart_find_product"
      [] op = "update_cart_item" -> "update_cart_item_update_one"
      [] op = "remove_from_cart" -> "remove_from_cart_delete_one"
      [] op = "create_order" -> "create_order_insert_one"
      [] op = "get_user_orders" -> "get_user_orders_find"

\* line 32: the answers of the bearer scheme to a request without an
\* Authorization header; which one depends on the installed fastapi release
\* (403 "Not authenticated" before 0.122, 401 from then on)
HTTPBearer == {401, 403}

\* line 128-145, the dependency of every protected route, after its own
\* dependency `security`; the pc that follows is the route's first await,
\* "done" for a route that returns at once
get_current_user(s) ==
    /\ req[s].pc = "get_current_user"
    /\ IF req[s].cred.kind = "none"
       THEN \E status_code \in HTTPBearer :
                HTTPException(s, status_code, "Not authenticated")
       ELSE LET found == get_current_user_docs(req[s].cred)
            IN  \/ /\ found = {}
                   /\ HTTPException(s, 401, "Could not validate credentials")
                \/ \E user \in found :
                     IF req[s].op = "get_current_user_profile"
                     THEN Return(s, [req[s] EXCEPT !.user = user.id], "", user)
                     ELSE req' = [req EXCEPT ![s].user = user.id,
                                             ![s].pc = FirstAwait(req[s].op)]
    /\ UNCHANGED <<store, uuid, now, session, nreq>>

StartProfile(s, cap, exclusive) ==
    /\ session[s].token.kind = "jwt"
    /\ \E t \in {session[s].token, session[s].reg_token} :
        Issue(s, [IdleReq EXCEPT !.op = "get_current_user_profile",
                                 !.pc = "get_current_user", !.cred = t],
              cap, exclusive)

Tick ==
    /\ now + TickMinutes <= MaxTime
    /\ now' = now + TickMinutes
    /\ UNCHANGED <<store, uuid, req, session, nreq>>

(* ------------------------------ catalog ------------------------------- *)
\* the fields of ProductCreate and ProductUpdate
FieldNames == {"name", "description", "price", "image_url", "category", "stock"}

\* line 361-390: the first of the sample products of create_sample_data
sample_products ==
    << [name |-> "Premium Wireless Headphones", description |-> "High-quality",
        price |-> "199.99", image_url |-> "photo-1498049794561", 
        category |-> "Electronics", stock |-> "50"],
       [name |-> "MacBook Pro 13-inch", description |-> "Apple MacBook Pro",
        price |-> "1299.99", image_url |-> "photo-1611186871348",
        category |-> "Electronics", stock |-> "25"],
       [name |-> "Modern Tech Workspace Setup", description |-> "Complete workspace",
        price |-> "899.99", image_url |-> "photo-1588508065123",
        category |-> "Electronics", stock |-> "15"],
       [name |-> "Designer Shopping Collection", description |-> "Curated fashion",
        price |-> "149.99", image_url |-> "photo-1483985988355",
        category |-> "Fashion", stock |-> "30"] >>

\* Product(**fields): id and created_at are the defaults of the model
Product(id, fields, created_at) ==
    [id |-> id, name |-> fields.name, description |-> fields.description,
     price |-> fields.price, image_url |-> fields.image_url,
     category |-> fields.category, stock |-> fields.stock, created_at |-> created_at]

\* Product(**document) validates: no field of the model accepts None
ProductValid(document) == \A f \in FieldNames : document[f] # None

\* the bodies a client posts to /products
ProductInputs ==
    {[name |-> "Desk Lamp", description |-> "A lamp", price |-> "19.99",
      image_url |-> "photo-lamp", category |-> "Home", stock |-> "0"]}

\* ProductUpdate.dict(exclude_unset=True) of the bodies a client puts: the
\* supplied fields only; every field of ProductUpdate is Optional, so a field
\* may be supplied as null
UpdateInputs ==
    {<<>>,
     [name |-> "Renamed"],
     [price |-> "9.99", stock |-> "7"],
     [description |-> None]}

\* {"$set": update_data} on one document
set_fields(document, update_data) ==
    [f \in DOMAIN document |->
        IF f \in DOMAIN update_data THEN update_data[f] ELSE document[f]]

\* ids a client may name: 0 is an id no document has
ProductIds == 0..uuid.products
ItemIds == 0..uuid.cart_items

StartGetProduct(s, cap, exclusive) ==
    \E id \in ProductIds :
        Issue(s, [IdleReq EXCEPT !.op = "get_product", !.pc = "get_product_find_one",
                                 !.product_id = id], cap, exclusive)

\* line 204-209
get_product_find_one(s) ==
    /\ req[s].pc = "get_product_find_one"
    /\ LET found == {p \in products : p.id = req[s].product_id}
       IN  \/ /\ found = {}
              /\ HTTPException(s, 404, "Product not found")
           \/ \E product \in found :
                IF ProductValid(product)
                THEN Return(s, req[s], "", product)
                ELSE Unhandled(s)
    /\ UNCHANGED <<store, uuid, now, session, nreq>>

StartCreateProduct(s, cap, exclusive) ==
    \E fields \in ProductInputs :
        Issue(s, [IdleReq EXCEPT !.op = "create_product",
                                 !.pc = "create_product_insert_one",
                                 !.update_data = fields], cap, exclusive)

\* line 211-215
create_product_insert_one(s) ==
    /\ req[s].pc = "create_product_insert_one"
    /\ LET product_obj == Product(uuid.products + 1, req[s].update_data, now)
       IN  /\ products' = products \cup {product_obj}
           /\ uuid' = [uuid EXCEPT !.products = @ + 1]
           /\ Return(s, [req[s] EXCEPT !.product_id = product_obj.id], "", product_obj)
    /\ UNCHANGED <<users, cart_items, orders, now, session, nreq>>

StartUpdateProduct(s, cap, exclusive) ==
    \E id \in ProductIds, update_data \in UpdateInputs :
        Issue(s, [IdleReq EXCEPT !.op = "update_product",
                                 !.pc = "update_product_find_one",
                                 !.product_id = id, !.update_data = update_data],
              cap, exclusive)

\* line 219-224: the existence check, then the decision to write
update_product_find_one(s) ==
    /\ req[s].pc = "update_product_find_one"
    /\ LET found == {p \in products : p.id = req[s].product_id}
       IN  IF found = {}
           THEN HTTPException(s, 404, "Product not found")
           ELSE IF DOMAIN req[s].update_data # {}
                THEN req' = [req EXCEPT ![s].pc = "update_product_update_one"]
                ELSE req' = [req EXCEPT ![s].pc = "update_product_reread"]
    /\ UNCHANGED <<store, uuid, now, session, nreq>>

\* line 225: update_one({"id"}, {"$set": update_data}); no document, no change
update_product_update_one(s) ==
    /\ req[s].pc = "update_product_update_one"
    /\ LET found == {p \in products : p.id = req[s].product_id}
       IN  \/ /\ found = {}
              /\ UNCHANGED products
           \/ \E product \in found :
                products' = (products \ {product})
                               \cup {set_fields(product, req[s].update_data)}
    /\ req' = [req EXCEPT ![s].pc = "update_product_reread"]
    /\ UNCHANGED <<users, cart_items, orders, uuid, now, session, nreq>>

\* line 227-228: Product(**None) raises TypeError, Product(**document) validates
update_product_reread(s) ==
    /\ req[s].pc = "update_product_reread"
    /\ LET found == {p \in products : p.id = req[s].product_id}
       IN  \/ /\ found = {}
              /\ Unhandled(s)
           \/ \E updated_product \in found :
                IF ProductValid(updated_product)
                THEN Return(s, req[s], "", updated_product)
                ELSE Unhandled(s)
    /\ UNCHANGED <<store, uuid, now, session, nreq>>

StartDeleteProduct(s, cap, exclusive) ==
    \E id \in ProductIds :
        Issue(s, [IdleReq EXCEPT !.op = "delete_product",
                                 !.pc = "delete_product_delete_one",
                                 !.product_id = id], cap, exclusive)

\* delete_product_delete_one without the test of deleted_count
delete_product_delete_one_unchecked(s) ==
    /\ req[s].pc = "delete_product_delete_one"
    /\ products' = products \ {p \in products : p.id = req[s].product_id}
    /\ Return(s, req[s], "Product deleted successfully", <<>>)
    /\ UNCHANGED <<users, cart_items, orders, uuid, now, session, nreq>>

\* line 230-235
delete_product_delete_one(s) ==
    /\ req[s].pc = "delete_product_delete_one"
    /\ LET found == {p \in products : p.id = req[s].product_id}
       IN  \/ /\ found = {}
              /\ HTTPException(s, 404, "Product not found")
              /\ UNCHANGED products
           \/ \E product \in found :
                /\ products' = products \ {product}
                /\ Return(s, req[s], "Product deleted successfully", <<>>)
    /\ UNCHANGED <<users, cart_items, orders, uuid, now, session, nreq>>

(* -------------------------------- cart -------------------------------- *)
\* a protected route is called with the token the client holds
Protected(s, op) ==
    [IdleReq EXCEPT !.op = op, !.pc = "get_current_user", !.cred = session[s].token]

LoggedIn(s) == session[s].token.kind = "jwt"

\* to_list: the documents in insertion order, which is the order of their ids
RECURSIVE to_list(_)
to_list(documents) ==
    IF documents = {} THEN <<>>
    ELSE LET first == CHOOSE d \in documents : \A e \in documents : d.id <= e.id
         IN  <<first>> \o to_list(documents \ {first})

StartGetCart(s, cap, exclusive) ==
    /\ LoggedIn(s)
    /\ Issue(s, Protected(s, "get_cart"), cap, exclusive)

\* line 240: the caller's cart items, read once
get_cart_find(s) ==
    /\ req[s].pc = "get_cart_find"
    /\ LET items == to_list({c \in cart_items : c.user_id = req[s].user})
       IN  IF items = <<>>
           THEN Return(s, req[s], "", <<>>)
           ELSE req' = [req EXCEPT ![s].pc = "get_cart_find_one", ![s].todo = items]
    /\ UNCHANGED <<store, uuid, now, session, nreq>>

\* line 244-253: one turn of the loop, the product of the next cart item
get_cart_find_one(s) ==
    /\ req[s].pc = "get_cart_find_one"
    /\ LET item == Head(req[s].todo)
           found == {p \in products : p.id = item.product_id}
           rest == Tail(req[s].todo)
           Continue(result) ==
               IF rest = <<>>
               THEN Return(s, [req[s] EXCEPT !.todo = rest, !.result = result], "", result)
               ELSE req' = [req EXCEPT ![s].todo = rest, ![s].result = result]
       IN  \/ /\ found = {}
              /\ Continue(req[s].result)
           \/ \E product \in found :
                IF ProductValid(product)
                THEN Continue(Append(req[s].result,
                                     [id |-> item.id, quantity |-> item.quantity,
                                      product |-> product]))
                ELSE Unhandled(s)
    /\ UNCHANGED <<store, uuid, now, session, nreq>>

StartAddToCart(s, cap, exclusive) ==
    /\ LoggedIn(s)
    /\ \E id \in ProductIds, q \in Quantities :
        Issue(s, [Protected(s, "add_to_cart") EXCEPT !.product_id = id, !.quantity = q],
              cap, exclusive)

\* line 258-260
add_to_cart_find_product(s) ==
    /\ req[s].pc = "add_to_cart_find_product"
    /\ IF {p \in products : p.id = req[s].product_id} = {}
       THEN HTTPException(s, 404, "Product not found")
       ELSE req' = [req EXCEPT ![s].pc = "add_to_cart_find_item"]
    /\ UNCHANGED <<store, uuid, now, session, nreq>>

\* line 263-268: find_one returns some document of the pair, or none
add_to_cart_find_item(s) ==
    /\ req[s].pc = "add_to_cart_find_item"
    /\ LET matching == {c \in cart_items : /\ c.user_id = req[s].user
                                           /\ c.product_id = req[s].product_id}
       IN  \/ /\ matching = {}
              /\ req' = [req EXCEPT ![s].pc = "add_to_cart_insert_one"]
           \/ \E existing_item \in matching :
                req' = [req EXCEPT ![s].pc = "add_to_cart_update_one",
                                   ![s].existing = {existing_item}]
    /\ UNCHANGED <<store, uuid, now, session, nreq>>

\* add_to_cart_update_one writing the requested quantity instead of the sum
add_to_cart_update_one_replace(s) ==
    /\ req[s].pc = "add_to_cart_update_one"
    /\ \E existing_item \in req[s].existing :
         LET new_quantity == req[s].quantity
             found == {c \in cart_items : c.id = existing_item.id}
         IN  \/ /\ found = {}
                /\ UNCHANGED cart_items
             \/ \E c \in found :
                  cart_items' = (cart_items \ {c})
                                   \cup {[c EXCEPT !.quantity = new_quantity]}
    /\ Return(s, req[s], "Cart item updated", <<>>)
    /\ UNCHANGED <<users, products, orders, uuid, now, session, nreq>>

\* add_to_cart_update_one incrementing the stored quantity in the store call
add_to_cart_update_one_inc(s) ==
    /\ req[s].pc = "add_to_cart_update_one"
    /\ \E existing_item \in req[s].existing :
         LET found == {c \in cart_items : c.id = existing_item.id}
         IN  \/ /\ found = {}
                /\ UNCHANGED cart_items
             \/ \E c \in found :
                  cart_items' = (cart_items \ {c})
                                   \cup {[c EXCEPT !.quantity = @ + req[s].quantity]}
    /\ Return(s, req[s], "Cart item updated", <<>>)
    /\ UNCHANGED <<users, products, orders, uuid, now, session, nreq>>

\* line 270-275: the quantity read before is written back, incremented
add_to_cart_update_one(s) ==
    /\ req[s].pc = "add_to_cart_update_one"
    /\ \E existing_item \in req[s].existing :
         LET new_quantity == existing_item.quantity + req[s].quantity
             found == {c \in cart_items : c.id = existing_item.id}
         IN  \/ /\ found = {}
                /\ UNCHANGED cart_items
             \/ \E c \in found :
                  cart_items' = (cart_items \ {c})
                                   \cup {[c EXCEPT !.quantity = new_quantity]}
    /\ Return(s, req[s], "Cart item updated", <<>>)
    /\ UNCHANGED <<users, products, orders, uuid, now, session, nreq>>

\* line 277-284
add_to_cart_insert_one(s) ==
    /\ req[s].pc = "add_to_cart_insert_one"
    /\ LET cart_item_obj == [id |-> uuid.cart_items + 1, user_id |-> req[s].user,
                             product_id |-> req[s].product_id,
                             quantity |-> req[s].quantity]
       IN  /\ cart_items' = cart_items \cup {cart_item_obj}
           /\ uuid' = [uuid EXCEPT !.cart_items = @ + 1]
    /\ Return(s, req[s], "Item added to cart", <<>>)
    /\ UNCHANGED <<users, products, orders, now, session, nreq>>

StartUpdateCartItem(s, cap, exclusive) ==
    /\ LoggedIn(s)
    /\ \E id \in ItemIds, q \in Quantities :
        Issue(s, [Protected(s, "update_cart_item") EXCEPT !.item_id = id, !.quantity = q],
              cap, exclusive)

\* update_cart_item_update_one with the filter on the item id alone
update_cart_item_update_one_any_owner(s) ==
    /\ req[s].pc = "update_cart_item_update_one"
    /\ LET matched == {c \in cart_items : c.id = req[s].item_id}
       IN  \/ /\ matched = {}
              /\ HTTPException(s, 404, "Cart item not found")
              /\ UNCHANGED cart_items
           \/ \E c \in matched :
                /\ cart_items' = (cart_items \ {c})
                                    \cup {[c EXCEPT !.quantity = req[s].quantity]}
                /\ Return(s, req[s], "Cart item updated", <<>>)
    /\ UNCHANGED <<users, products, orders, uuid, now, session, nreq>>

\* line 286-296: the filter names the item and its owner
update_cart_item_update_one(s) ==
    /\ req[s].pc = "update_cart_item_update_one"
    /\ LET matched == {c \in cart_items : c.id = req[s].item_id /\ c.user_id = req[s].user}
       IN  \/ /\ matched = {}
              /\ HTTPException(s, 404, "Cart item not found")
              /\ UNCHANGED cart_items
           \/ \E c \in matched :
                /\ cart_items' = (cart_items \ {c})
                                    \cup {[c EXCEPT !.quantity = req[s].quantity]}
                /\ Return(s, req[s], "Cart item updated", <<>>)
    /\ UNCHANGED <<users, products, orders, uuid, now, session, nreq>>

StartRemoveFromCart(s, cap, exclusive) ==
    /\ LoggedIn(s)
    /\ \E id \in ItemIds :
        Issue(s, [Protected(s, "remove_from_cart") EXCEPT !.item_id = id], cap, exclusive)

\* line 298-305
remove_from_cart_delete_one(s) ==
    /\ req[s].pc = "remove_from_cart_delete_one"
    /\ LET matched == {c \in cart_items : c.id = req[s].item_id /\ c.user_id = req[s].user}
       IN  \/ /\ matched = {}
              /\ HTTPException(s, 404, "Cart item not found")
              /\ UNCHANGED cart_items
           \/ \E c \in matched :
                /\ cart_items' = cart_items \ {c}
                /\ Return(s, req[s], "Item removed from cart", <<>>)
    /\ UNCHANGED <<users, products, orders, uuid, now, session, nreq>>

(* ------------------------------- orders ------------------------------- *)
\* the bodies a client posts to /orders
OrderInputs ==
    {[items |-> <<>>, total_amount |-> "0.0", shipping_address |-> "1 Main St"],
     [items |-> <<[product_id |-> 1, quantity |-> 3]>>, total_amount |-> "59.97",
      shipping_address |-> "1 Main St"]}

StartCreateOrder(s, cap, exclusive) ==
    /\ LoggedIn(s)
    /\ \E order \in OrderInputs :
        Issue(s, [Protected(s, "create_order") EXCEPT !.order = order], cap, exclusive)

\* create_order_insert_one clearing the caller's cart in the same store step
create_order_insert_one_clearing(s) ==
    /\ req[s].pc = "create_order_insert_one"
    /\ LET order_obj == [id |-> uuid.orders + 1, user_id |-> req[s].user,
                         items |-> req[s].order.items,
                         total_amount |-> req[s].order.total_amount,
                         status |-> "pending",
                         shipping_address |-> req[s].order.shipping_address]
       IN  /\ cart_items' = {c \in cart_items : c.user_id # req[s].user}
           /\ orders' = orders \cup {order_obj}
           /\ uuid' = [uuid EXCEPT !.orders = @ + 1]
           /\ req' = [req EXCEPT ![s].pc = "create_order_delete_many",
                                 ![s].result = order_obj]
    /\ UNCHANGED <<users, products, now, session, nreq>>

\* line 310-311: the Order is built from the body and inserted
create_order_insert_one(s) ==
    /\ req[s].pc = "create_order_insert_one"
    /\ LET order_obj == [id |-> uuid.orders + 1, user_id |-> req[s].user,
                         items |-> req[s].order.items,
                         total_amount |-> req[s].order.total_amount,
                         status |-> "pending",
                         shipping_address |-> req[s].order.shipping_address]
       IN  /\ orders' = orders \cup {order_obj}
           /\ uuid' = [uuid EXCEPT !.orders = @ + 1]
           /\ req' = [req EXCEPT ![s].pc = "create_order_delete_many",
                                 ![s].result = order_obj]
    /\ UNCHANGED <<users, products, cart_items, now, session, nreq>>

\* create_order_delete_many with an empty filter
create_order_delete_many_all(s) ==
    /\ req[s].pc = "create_order_delete_many"
    /\ cart_items' = {}
    /\ Return(s, req[s], "", req[s].result)
    /\ UNCHANGED <<users, products, orders, uuid, now, session, nreq>>

\* line 313-316: delete_many({"user_id"}), then the Order is returned
create_order_delete_many(s) ==
    /\ req[s].pc = "create_order_delete_many"
    /\ cart_items' = {c \in cart_items : c.user_id # req[s].user}
    /\ Return(s, req[s], "", req[s].result)
    /\ UNCHANGED <<users, products, orders, uuid, now, session, nreq>>

StartGetUserOrders(s, cap, exclusive) ==
    /\ LoggedIn(s)
    /\ Issue(s, Protected(s, "get_user_orders"), cap, exclusive)

\* line 318-321
get_user_orders_find(s) ==
    /\ req[s].pc = "get_user_orders_find"
    /\ Return(s, req[s], "", to_list({o \in orders : o.user_id = req[s].user}))
    /\ UNCHANGED <<store, uuid, now, session, nreq>>

(* ---------------------------- specifications -------------------------- *)
\* line 355-445: after startup the store holds the sample products and no user
Init ==
    /\ users = {}
    /\ products = {Product(i, sample_products[i], 0) : i \in 1..NumSampleProducts}
    /\ cart_items = {}
    /\ orders = {}
    /\ uuid = [users |-> 0, products |-> NumSampleProducts, cart_items |-> 0, orders |-> 0]
    /\ now = 0
    /\ req = [s \in Slots |-> IdleReq]
    /\ session = [s \in Slots |-> NoSession]
    /\ nreq = 0

NextAuth ==
    \/ \E s \in Slots : StartRegister(s, MaxAuthRequests, FALSE)
    \/ \E s \in Slots : StartLogin(s, MaxAuthRequests, FALSE)
    \/ \E s \in Slots : StartProfile(s, MaxAuthRequests, FALSE)
    \/ \E s \in Slots : register_find_one(s)
    \/ \E s \in Slots : register_insert_one(s)
    \/ \E s \in Slots : login_find_one(s)
    \/ \E s \in Slots : get_current_user(s)
    \/ Tick

SpecAuth == Init /\ [][NextAuth]_vars

\* a running shop: two registered users, the sample products, every client
\* logged in as one of the users
registered_users ==
    {[id |-> 1, email |-> "a@shop.io", full_name |-> "name",
      hashed_password |-> get_password_hash("pw1", 1), is_active |-> TRUE],
     [id |-> 2, email |-> "b@shop.io", full_name |-> "name",
      hashed_password |-> get_password_hash("pw2", 1), is_active |-> TRUE]}

\* the client of user u after its registration at time 0
SessionOf(u) ==
    LET token == jwt_encode(u.id, ACCESS_TOKEN_EXPIRE_MINUTES, SECRET_KEY)
    IN  [email |-> u.email, password |-> u.hashed_password.digest[3],
         reg_token |-> token, token |-> token]

InitStore ==
    /\ users = registered_users
    /\ products = {Product(i, sample_products[i], 0) : i \in 1..NumSampleProducts}
    /\ cart_items = {}
    /\ orders = {}
    /\ uuid = [users |-> 2, products |-> NumSampleProducts, cart_items |-> 0, orders |-> 0]
    /\ now = 0
    /\ req = [s \in Slots |-> IdleReq]
    /\ nreq = 0

InitShop ==
    /\ InitStore
    /\ session \in [Slots -> {SessionOf(u) : u \in registered_users}]

CartStep(s) ==
    \/ get_current_user(s)
    \/ add_to_cart_find_product(s)
    \/ add_to_cart_find_item(s)
    \/ add_to_cart_update_one(s)
    \/ add_to_cart_insert_one(s)
    \/ update_cart_item_update_one(s)
    \/ remove_from_cart_delete_one(s)
    \/ create_order_insert_one(s)
    \/ create_order_delete_many(s)

NextCart ==
    \/ \E s \in Slots : StartAddToCart(s, MaxCartRequests, FALSE)
    \/ \E s \in Slots : StartUpdateCartItem(s, MaxCartRequests, FALSE)
    \/ \E s \in Slots : StartRemoveFromCart(s, MaxCartRequests, FALSE)
    \/ \E s \in Slots : StartCreateOrder(s, MaxCartRequests, FALSE)
    \/ \E s \in Slots : CartStep(s)

SpecCart == InitShop /\ [][NextCart]_vars

CatalogStep(s) ==
    \/ get_product_find_one(s)
    \/ create_product_insert_one(s)
    \/ update_product_find_one(s)
    \/ update_product_update_one(s)
    \/ update_product_reread(s)
    \/ delete_product_delete_one(s)

NextCatalog ==
    \/ \E s \in Slots : StartGetProduct(s, MaxCatalogRequests, FALSE)
    \/ \E s \in Slots : StartCreateProduct(s, MaxCatalogRequests, FALSE)
    \/ \E s \in Slots : StartUpdateProduct(s, MaxCatalogRequests, FALSE)
    \/ \E s \in Slots : StartDeleteProduct(s, MaxCatalogRequests, FALSE)
    \/ \E s \in Slots : CatalogStep(s)

\* the catalog routes take no token: the clients are anonymous
InitCatalog ==
    /\ InitStore
    /\ session = [s \in Slots |-> NoSession]

SpecCatalog == InitCatalog /\ [][NextCatalog]_vars

\* the clients take turns: a request is issued only when none is in flight
NextSeq ==
    \/ \E s \in Slots : StartGetCart(s, MaxSeqRequests, TRUE)
    \/ \E s \in Slots : StartAddToCart(s, MaxSeqRequests, TRUE)
    \/ \E s \in Slots : StartUpdateProduct(s, MaxSeqRequests, TRUE)
    \/ \E s \in Slots : StartDeleteProduct(s, MaxSeqRequests, TRUE)
    \/ \E s \in Slots : get_current_user(s)
    \/ \E s \in Slots : get_cart_find(s)
    \/ \E s \in Slots : get_cart_find_one(s)
    \/ \E s \in Slots : add_to_cart_find_product(s)
    \/ \E s \in Slots : add_to_cart_find_item(s)
    \/ \E s \in Slots : add_to_cart_update_one(s)
    \/ \E s \in Slots : add_to_cart_insert_one(s)
    \/ \E s \in Slots : update_product_find_one(s)
    \/ \E s \in Slots : update_product_update_one(s)
    \/ \E s \in Slots : update_product_reread(s)
    \/ \E s \in Slots : delete_product_delete_one(s)

SpecSeq == InitShop /\ [][NextSeq]_vars

\* the routes behind Depends(get_current_user)
GuardedOps ==
    {"get_current_user_profile", "get_cart", "add_to_cart", "update_cart_item",
     "remove_from_cart", "create_order", "get_user_orders"}

\* what a client can put in the Authorization header: nothing, a string that
\* is no JWT, a JWT signed with another key, one that has expired, one
\* without "sub", one whose "sub" is no stored id, and the token it holds
Credentials(s) ==
    {NoToken,
     [kind |-> "malformed", sub |-> 0, exp |-> 0, key |-> ""],
     jwt_encode(1, ACCESS_TOKEN_EXPIRE_MINUTES, "another-key"),
     jwt_encode(1, 0, SECRET_KEY),
     jwt_encode(0, ACCESS_TOKEN_EXPIRE_MINUTES, SECRET_KEY),
     jwt_encode(UnknownUserId, ACCESS_TOKEN_EXPIRE_MINUTES, SECRET_KEY),
     session[s].token}

StartWithCredentials(s, cap, exclusive) ==
    \E op \in GuardedOps, cred \in Credentials(s), id \in {NumSampleProducts},
       item \in ItemIds, q \in {MaxQty}, order \in OrderInputs :
        Issue(s, [IdleReq EXCEPT
                    !.op = op, !.pc = "get_current_user", !.cred = cred,
                    !.product_id = IF op = "add_to_cart" THEN id ELSE 0,
                    !.item_id = IF op \in {"update_cart_item", "remove_from_cart"}
                                THEN item ELSE 0,
                    !.quantity = IF op \in {"add_to_cart", "update_cart_item"}
                                 THEN q ELSE 0,
                    !.order = IF op = "create_order" THEN order ELSE <<>>],
              cap, exclusive)

NextGuard ==
    \/ \E s \in Slots : StartWithCredentials(s, MaxGuardRequests, FALSE)
    \/ \E s \in Slots : CartStep(s)
    \/ \E s \in Slots : get_cart_find(s)
    \/ \E s \in Slots : get_cart_find_one(s)
    \/ \E s \in Slots : get_user_orders_find(s)
    \/ Tick

SpecGuard == InitShop /\ [][NextGuard]_vars

\* every route, the requests interleaving at their awaits
Next ==
    \/ NextAuth
    \/ NextCatalog
    \/ NextCart
    \/ \E s \in Slots : StartGetCart(s, MaxCartRequests, FALSE)
    \/ \E s \in Slots : StartGetUserOrders(s, MaxCartRequests, FALSE)
    \/ \E s \in Slots : get_cart_find(s)
    \/ \E s \in Slots : get_cart_find_one(s)
    \/ \E s \in Slots : get_user_orders_find(s)

Spec == Init /\ [][Next]_vars

(* ------------------------------- claims ------------------------------- *)
\* client s takes the step of its request that starts at the await `pc`
StepAt(s, pc) == req[s].pc = pc /\ req'[s] # req[s]

Done(s, op) == req[s].op = op /\ req[s].pc = "done"

CartOf(items, user_id) == {c \in items : c.user_id = user_id}

PairItems(items, user_id, product_id) ==
    {c \in items : c.user_id = user_id /\ c.product_id = product_id}

\* C1: cart_items never holds two CartItems of one (user_id, product_id) pair,
\* whatever the interleaving of the cart and order requests.
C1_OneCartItemPerPair ==
    \A c \in cart_items, d \in cart_items :
        (c.user_id = d.user_id /\ c.product_id = d.product_id) => c = d

\* C3: users never holds two User documents with the same email, whatever the
\* interleaving of the register requests.
C3_EmailUnique ==
    \A u \in users, v \in users : u.email = v.email => u = v

\* C4: register answers 400 without a token and without a write when a User with
\* the email is stored at its check; otherwise it goes on to insert exactly one
\* User with that email and answers 200 with a token for the new id.
C4_RegisterContract ==
    [][\A s \in Slots :
        LET taken == \E u \in users : u.email = req[s].email
        IN  /\ (StepAt(s, "register_find_one") /\ taken) =>
                  /\ req'[s].pc = "done"
                  /\ req'[s].resp.status = 400
                  /\ req'[s].resp.access_token = NoToken
                  /\ users' = users
                  /\ session' = session
            /\ (StepAt(s, "register_find_one") /\ ~taken) =>
                  /\ req'[s].pc = "register_insert_one"
                  /\ users' = users
            /\ StepAt(s, "register_insert_one") =>
                  /\ req'[s].pc = "done"
                  /\ req'[s].resp.status = 200
                  /\ \E doc \in users' \ users :
                        /\ users' = users \cup {doc}
                        /\ doc.email = req[s].email
                        /\ verify_password(req[s].password, doc.hashed_password)
                        /\ \A u \in users : u.id # doc.id
                        /\ req'[s].resp.access_token =
                              jwt_encode(doc.id, now + ACCESS_TOKEN_EXPIRE_MINUTES,
                                         SECRET_KEY)
      ]_vars

\* C4 witness: a register request was refused for an email that is stored.
C4_Witness ==
    \E s \in Slots :
        /\ Done(s, "register")
        /\ req[s].resp.status = 400
        /\ \E u \in users : u.email = req[s].email
        /\ \E t \in Slots : Done(t, "register") /\ req[t].resp.status = 200

\* C5: a client that registered and later logs in with the same email and
\* password gets a token for the id its registration token names, and while
\* both tokens are unexpired get_current_user resolves them to one and the same
\* User document.
C5_LoginAfterRegister ==
    \A s \in Slots :
        (/\ Done(s, "login")
         /\ session[s].reg_token # NoToken
         /\ req[s].email = session[s].email
         /\ req[s].password = session[s].password)
        => /\ req[s].resp.status = 200
           /\ req[s].resp.access_token.sub = session[s].reg_token.sub
           /\ (/\ jwt_decode_ok(req[s].resp.access_token, SECRET_KEY)
               /\ jwt_decode_ok(session[s].reg_token, SECRET_KEY))
              => /\ get_current_user_docs(req[s].resp.access_token)
                      = get_current_user_docs(session[s].reg_token)
                 /\ Cardinality(get_current_user_docs(session[s].reg_token)) = 1

\* C6: update_cart_item and remove_from_cart on an item of another user answer
\* 404 and leave cart_items as it is; on an item of the caller they answer 200
\* and set its quantity to the given value, or delete it, and nothing else.
C6_CartItemOwnership ==
    [][\A s \in Slots : \A c \in cart_items :
        (c.id = req[s].item_id) =>
            LET caller == req[s].cred.sub
            IN  /\ (StepAt(s, "update_cart_item_update_one") /\ c.user_id # caller) =>
                      /\ req'[s].pc = "done" /\ req'[s].resp.status = 404
                      /\ cart_items' = cart_items
                /\ (StepAt(s, "remove_from_cart_delete_one") /\ c.user_id # caller) =>
                      /\ req'[s].pc = "done" /\ req'[s].resp.status = 404
                      /\ cart_items' = cart_items
                /\ (StepAt(s, "update_cart_item_update_one") /\ c.user_id = caller) =>
                      /\ req'[s].pc = "done" /\ req'[s].resp.status = 200
                      /\ cart_items' = (cart_items \ {c})
                                          \cup {[c EXCEPT !.quantity = req[s].quantity]}
                /\ (StepAt(s, "remove_from_cart_delete_one") /\ c.user_id = caller) =>
                      /\ req'[s].pc = "done" /\ req'[s].resp.status = 200
                      /\ cart_items' = cart_items \ {c}
      ]_vars

\* C6 witness: an update or a removal was refused with 404 although the item
\* is stored, for another user.
C6_Witness ==
    \E s \in Slots : \E c \in cart_items :
        /\ Done(s, "remove_from_cart") \/ Done(s, "update_cart_item")
        /\ req[s].resp.status = 404
        /\ c.id = req[s].item_id
        /\ c.user_id # req[s].cred.sub
        /\ req[s].seq = nreq

\* C7 as claimed: once create_order of u has returned, and no request has been
\* issued since, the store holds no CartItem of u.
C7_CartEmptyOnceOrderReturned ==
    \A s \in Slots :
        (Done(s, "create_order") /\ req[s].resp.status = 200 /\ req[s].seq = nreq)
        => CartOf(cart_items, req[s].cred.sub) = {}

\* C7 amended: the step on which create_order of u returns removes exactly the
\* CartItems of u, and a cart that is empty only gets an item by the insert of
\* an add_to_cart of its user (which may have started before the order returned).
C7_OrderClearsCart ==
    [][/\ \A s \in Slots :
            StepAt(s, "create_order_delete_many") =>
                /\ req'[s].pc = "done" /\ req'[s].resp.status = 200
                /\ CartOf(cart_items', req[s].cred.sub) = {}
                /\ cart_items' = {c \in cart_items : c.user_id # req[s].cred.sub}
       /\ \A u \in users :
            (CartOf(cart_items, u.id) = {} /\ CartOf(cart_items', u.id) # {}) =>
                \E t \in Slots : /\ StepAt(t, "add_to_cart_insert_one")
                                 /\ req[t].cred.sub = u.id
      ]_vars

\* C7 witness: an order of a user with items in the cart has returned; the cart
\* of that user is empty and an item of the other user is still stored.
C7_Witness ==
    \E s \in Slots :
        /\ Done(s, "create_order") /\ req[s].resp.status = 200
        /\ CartOf(cart_items, req[s].cred.sub) = {}
        /\ \E c \in cart_items : c.user_id # req[s].cred.sub
        /\ uuid.cart_items > Cardinality(cart_items)

Stored(product_id) == {p \in products : p.id = product_id}

\* the latest two requests, issued one after the other by two clients, are
\* add_to_cart of one user for one product, and the first reported an insert
C2_TwoAdds(t, s) ==
    /\ s # t
    /\ Done(t, "add_to_cart") /\ Done(s, "add_to_cart")
    /\ req[s].seq = nreq /\ req[t].seq + 1 = req[s].seq
    /\ req[t].cred.sub = req[s].cred.sub
    /\ req[t].product_id = req[s].product_id
    /\ req[t].resp.status = 200
    /\ req[t].resp.detail = "Item added to cart"

C2_Merged ==
    \A s \in Slots, t \in Slots :
        C2_TwoAdds(t, s) =>
            /\ req[s].resp.status = 200
            /\ req[s].resp.detail = "Cart item updated"
            /\ \E c \in cart_items :
                  /\ PairItems(cart_items, req[s].cred.sub, req[s].product_id) = {c}
                  /\ c.quantity = req[t].quantity + req[s].quantity

\* C2: with the requests taking turns, add_to_cart of a stored product that the
\* caller has no item for reports "Item added to cart" and stores one item with
\* the requested quantity; the add_to_cart of the same product that follows it
\* reports "Cart item updated" and leaves exactly one item of the pair, whose
\* quantity is the sum of the two.
C2_AddTwiceMerges ==
    [][/\ \A s \in Slots :
            (/\ req[s].op = "add_to_cart" /\ InFlight(s) /\ req'[s].pc = "done"
             /\ Stored(req[s].product_id) # {}
             /\ PairItems(cart_items, req[s].cred.sub, req[s].product_id) = {})
            => /\ req'[s].resp.status = 200
               /\ req'[s].resp.detail = "Item added to cart"
               /\ \E c \in cart_items' :
                     /\ PairItems(cart_items', req[s].cred.sub, req[s].product_id) = {c}
                     /\ c.quantity = req[s].quantity
       /\ C2_Merged'
      ]_vars

\* C2 witness: the second of two successive adds has returned and the one item
\* of the pair holds the sum.
C2_Witness ==
    \E s \in Slots, t \in Slots :
        /\ C2_TwoAdds(t, s)
        /\ req[s].resp.detail = "Cart item updated"
        /\ \E c \in cart_items :
              /\ c.user_id = req[s].cred.sub /\ c.product_id = req[s].product_id
              /\ c.quantity = req[t].quantity + req[s].quantity
              /\ req[t].quantity # req[s].quantity

\* C8: get_product and delete_product of an id that is not stored answer 404
\* and leave products as it is; delete_product of a stored id removes that one
\* product and answers 200; an id that was deleted is never stored again, so
\* every later get_product and delete_product of it answers 404.
C8_DeleteThenNotFound ==
    [][/\ \A s \in Slots :
            LET stored == Stored(req[s].product_id)
            IN  /\ (StepAt(s, "get_product_find_one") /\ stored = {}) =>
                      /\ req'[s].pc = "done" /\ req'[s].resp.status = 404
                      /\ products' = products
                /\ (StepAt(s, "delete_product_delete_one") /\ stored = {}) =>
                      /\ req'[s].pc = "done" /\ req'[s].resp.status = 404
                      /\ products' = products
                /\ (StepAt(s, "delete_product_delete_one") /\ stored # {}) =>
                      /\ req'[s].pc = "done" /\ req'[s].resp.status = 200
                      /\ Cardinality(stored) = 1
                      /\ products' = products \ stored
       /\ \A id \in 1..uuid.products :
            (\A p \in products : p.id # id) => (\A p \in products' : p.id # id)
      ]_vars

\* C8 witness: a product was deleted, and a later get_product or delete_product
\* of the same id was answered 404.
C8_Witness ==
    \E s \in Slots, t \in Slots :
        /\ Done(t, "delete_product") /\ req[t].resp.status = 200
        /\ Done(s, "get_product") \/ Done(s, "delete_product")
        /\ req[s].product_id = req[t].product_id
        /\ req[s].seq > req[t].seq
        /\ req[s].resp.status = 404
        /\ Stored(req[t].product_id) = {}

\* the entries get_cart of the user is to return from the store as it is
C9_Expected(user_id) ==
    {[id |-> x[1].id, quantity |-> x[1].quantity, product |-> x[2]] :
        x \in {y \in CartOf(cart_items, user_id) \X products :
                  y[2].id = y[1].product_id}}

C9_Result ==
    \A s \in Slots :
        (Done(s, "get_cart") /\ req[s].seq = nreq) =>
            /\ req[s].resp.status = 200
            /\ {req[s].resp.body[i] : i \in 1..Len(req[s].resp.body)}
                  = C9_Expected(req[s].cred.sub)
            /\ Len(req[s].resp.body) = Cardinality(C9_Expected(req[s].cred.sub))

\* C9: with the requests taking turns, get_cart answers 200 with exactly one
\* entry for each CartItem of the caller whose product is stored and with no
\* other entry, and no step of it changes a collection.
C9_GetCartJoinsStoredProducts ==
    [][/\ \A s \in Slots :
            (req[s].op = "get_cart" /\ req'[s] # req[s] /\ InFlight(s))
                => store' = store
       /\ C9_Result'
      ]_vars

\* C10: with the requests taking turns, update_product of an id that is not
\* stored answers 404 and changes nothing; of a stored product it writes the
\* supplied fields with the supplied values and nothing else; with no field
\* supplied it writes nothing and answers 200 with the stored record.
C10_UpdateProductFrame ==
    [][\A s \in Slots :
        LET stored == Stored(req[s].product_id)
            update_data == req[s].update_data
        IN  /\ (StepAt(s, "update_product_find_one") /\ stored = {}) =>
                  /\ req'[s].pc = "done" /\ req'[s].resp.status = 404
                  /\ store' = store
            /\ (StepAt(s, "update_product_find_one") /\ stored # {}) =>
                  /\ store' = store
                  /\ req'[s].pc = IF DOMAIN update_data = {}
                                  THEN "update_product_reread"
                                  ELSE "update_product_update_one"
            /\ StepAt(s, "update_product_update_one") =>
                  /\ <<users, cart_items, orders>>' = <<users, cart_items, orders>>
                  /\ \A p \in stored :
                        \E q \in products' :
                            /\ products' \ {q} = products \ {p}
                            /\ DOMAIN q = DOMAIN p
                            /\ \A f \in DOMAIN p :
                                  q[f] = IF f \in DOMAIN update_data
                                         THEN update_data[f] ELSE p[f]
            /\ (StepAt(s, "update_product_reread") /\ DOMAIN update_data = {}) =>
                  /\ store' = store
                  /\ req'[s].pc = "done" /\ req'[s].resp.status = 200
                  /\ stored = {req'[s].resp.body}
      ]_vars

\* C11: a request to a route behind get_current_user that carries no token, a
\* malformed or wrongly signed token, an expired token, a token without
\* subject or a token whose subject is no stored user is answered 401 on its
\* first step, and that step leaves users, products, cart_items and orders
\* as they are.
C11_NotAccepted(cred) ==
    \/ cred.kind = "none"
    \/ cred.kind = "malformed"
    \/ cred.key # SECRET_KEY
    \/ cred.exp <= now
    \/ cred.sub = 0
    \/ ~ \E u \in users : u.id = cred.sub

C11_Unauthorized ==
    [][\A s \in Slots :
         (StepAt(s, "get_current_user") /\ C11_NotAccepted(req[s].cred)) =>
             /\ req'[s].pc = "done"
             /\ req'[s].resp.status = 401
             /\ store' = store]_vars

\* C11 for the requests that do carry an Authorization header: 401 and no
\* write; and a request that is not answered 401 or 403 on its first step
\* carried a token get_current_user accepts.
C11_PresentedTokenRejected ==
    [][\A s \in Slots :
         StepAt(s, "get_current_user") =>
             /\ store' = store
             /\ C11_NotAccepted(req[s].cred) =>
                    /\ req'[s].pc = "done"
                    /\ req'[s].resp.status \in HTTPBearer
                    /\ req[s].cred.kind # "none" => req'[s].resp.status = 401]_vars

\* a request without Authorization header has been answered
C11_Witness ==
    \E s \in Slots :
        /\ req[s].pc = "done"
        /\ req[s].op \in GuardedOps
        /\ req[s].cred.kind = "none"
        /\ req[s].resp.status \in HTTPBearer


\* C12: the merge of add_to_cart writes back the quantity it read at its
\* find_one plus the requested one, whatever the item holds by then, and
\* reports success; an increment another request stored in between is
\* overwritten.
C12_MergeWritesReadQuantity ==
    [][\A s \in Slots :
         StepAt(s, "add_to_cart_update_one") =>
             \A e \in req[s].existing :
                 /\ req'[s].pc = "done"
                 /\ req'[s].resp.status = 200
                 /\ req'[s].resp.detail = "Cart item updated"
                 /\ \A c \in cart_items :
                        c.id = e.id =>
                            cart_items' = (cart_items \ {c}) \cup
                                {[c EXCEPT !.quantity = e.quantity + req[s].quantity]}
                 /\ (~ \E c \in cart_items : c.id = e.id) => cart_items' = cart_items]_vars

\* two add_to_cart requests of one user for one product read the same item
\* with quantity q0, both reported the merge, and the item holds q0 plus the
\* quantity of one of them only
C12_Witness ==
    \E s, t \in Slots :
        /\ s # t
        /\ Done(s, "add_to_cart") /\ Done(t, "add_to_cart")
        /\ req[s].resp.detail = "Cart item updated"
        /\ req[t].resp.detail = "Cart item updated"
        /\ req[s].user = req[t].user
        /\ req[s].product_id = req[t].product_id
        /\ req[s].existing = req[t].existing
        /\ \E e \in req[s].existing, c \in cart_items :
               /\ c.id = e.id
               /\ c.quantity = e.quantity + req[s].quantity
               /\ c.quantity < e.quantity + req[s].quantity + req[t].quantity

\* C13: create_order takes two store steps in this order.  The first inserts
\* one Order (caller's user_id, status "pending", items, total_amount and
\* shipping_address as submitted) and removes no cart item; the second, taken
\* with that Order stored, deletes the caller's cart items.  No step of a
\* create_order request changes the cart while its Order is not stored.
C13_OrderBeforeClear ==
    [][\A s \in Slots :
         /\ StepAt(s, "create_order_insert_one") =>
                /\ cart_items' = cart_items
                /\ req'[s].pc = "create_order_delete_many"
                /\ \E o \in orders' \ orders :
                       /\ orders' = orders \cup {o}
                       /\ o.user_id = req[s].user
                       /\ o.status = "pending"
                       /\ o.items = req[s].order.items
                       /\ o.total_amount = req[s].order.total_amount
                       /\ o.shipping_address = req[s].order.shipping_address
                       /\ req'[s].result = o
         /\ StepAt(s, "create_order_delete_many") =>
                /\ req[s].result \in orders
                /\ orders' = orders
                /\ cart_items' = {c \in cart_items : c.user_id # req[s].user}
         /\ (InFlight(s) /\ req[s].op = "create_order" /\ req'[s] # req[s]
                         /\ cart_items' # cart_items) =>
                \E o \in orders : o.user_id = req[s].user /\ o = req[s].result]_vars

\* the Order of a create_order request is stored and the caller's cart still
\* holds items: the request stands between its two store steps
C13_Witness ==
    \E s \in Slots :
        /\ req[s].op = "create_order"
        /\ req[s].pc = "create_order_delete_many"
        /\ \E o \in orders : o.user_id = req[s].user /\ o.id = req[s].result.id
        /\ CartOf(cart_items, req[s].user) # {}

\* C14: an update_product request ends either with 404 or with 200 and the
\* Product record stored under its id, whatever other requests do meanwhile;
\* it never ends in another fault.  Stated for stores in which every product
\* passes Product's validation, so that the null fields of C10 play no part.
C14_UpdateProductOutcomes ==
    [][\A s \in Slots :
         (/\ InFlight(s)
          /\ req[s].op = "update_product"
          /\ req'[s].pc = "done"
          /\ \A p \in products' : ProductValid(p)) =>
             \/ req'[s].resp.status = 404
             \/ /\ req'[s].resp.status = 200
                /\ \E p \in products' :
                       p.id = req[s].product_id /\ req'[s].resp.body = p]_vars

====
